---- MODULE Spec2Model ----
(***************************************************************************)
(* The shared k3d registry of cli/registry.go: createRegistry (create or   *)
(* reuse the singleton registry container and attach a cluster network)    *)
(* and disconnectRegistryFromNetwork (detach a cluster network and tear    *)
(* the registry down once no network is left).                             *)
(*                                                                         *)
(* The host's container runtime is the shared state.  Every call into the  *)
(* runtime (getRegistryContainer, startContainer, createVolume, ...) is    *)
(* one atomic step of the calling process, so that calls of different k3d  *)
(* processes interleave at exactly the points where the code touches the   *)
(* runtime.  Every runtime call may fail (the error return of the Go       *)
(* function); the failure is an input of the step.                         *)
(***************************************************************************)
EXTENDS Integers, FiniteSets, Sequences, TLC

(***************************************************************************)
(* Bounds of the model.                                                    *)
(***************************************************************************)
\* number of clusters (one k3d invocation at a time per cluster)
NumClusters == 2
\* number of container identifiers the runtime hands out in a run
MaxIds == 2
\* number of calls in a run of Spec (one k3d command at a time)
MaxCalls == 4
\* number of calls in a run of SpecConc (overlapping k3d commands)
MaxConcCalls == 2

Clusters == 1..NumClusters
\* the empty container identifier "" (line 277)
NoId == 0

(***************************************************************************)
(* Constants of registry.go.                                               *)
(***************************************************************************)
defaultRegistryContainerName == "k3d-registry"
defaultRegistryPort == 5000
defaultRegistryMountPath == "/var/lib/registry"
DockerRegistryHubAddressAsMirrorKey == "registry-1.docker.io"
defaultDockerHubAddress == "docker.io"
defaultRegistryContainerLabels == {<<"app", "k3d">>, <<"component", "registry">>}
defaultRegistryVolumeLabels ==
    {<<"app", "k3d">>, <<"component", "registry">>, <<"managed", "true">>}

(***************************************************************************)
(* Inputs: the ClusterSpec fields createRegistry reads.                    *)
(***************************************************************************)
RegistryNames == {"registry.local"}
RegistryPorts == {5000, 5001}
VolumeNames == {"k3d-registry-vol", "my-data"}
\* the volumes that may exist on the host before any call
PreexistingVolumes == {"my-data"}
\* label sets of volumes that exist on the host before any call and were not
\* created by createRegistry
ForeignLabelSets == { {}, {<<"app", "k3d">>, <<"component", "registry">>} }
\* networks attached to the registry from outside k3d
ExternalNetworks == {<<"ext", 1>>}

ClusterSpecs(c) ==
    [ClusterName : {c}, RegistryName : RegistryNames, RegistryPort : RegistryPorts,
     RegistryVolume : {""} \cup VolumeNames]

\* k3dNetworkName(clusterName): "k3d-" followed by the cluster name
k3dNetworkName(name) == <<"k3d", name>>

\* strconv.Itoa
Digit(d) ==
    CASE d = 0 -> "0" [] d = 1 -> "1" [] d = 2 -> "2" [] d = 3 -> "3" [] d = 4 -> "4"
      [] d = 5 -> "5" [] d = 6 -> "6" [] d = 7 -> "7" [] d = 8 -> "8" [] d = 9 -> "9"

RECURSIVE Itoa(_)
Itoa(n) == IF n < 10 THEN Digit(n) ELSE Itoa(n \div 10) \o Digit(n % 10)

\* labels of the container createRegistry creates (lines 162-169); the value of
\* "created" is the wall clock, which no decision reads
ContainerLabels(spec) ==
    defaultRegistryContainerLabels
        \cup {<<"created", "time.Now">>, <<"hostname", spec.RegistryName>>}

\* labels of the volume createRegistry creates (lines 204-210)
VolumeLabelsOfContainer(spec) ==
    {<<"registry-name", spec.RegistryName>>,
     <<"registry-port", Itoa(spec.RegistryPort)>>} \cup defaultRegistryContainerLabels
VolumeLabels(spec) ==
    {<<"registry-name", spec.RegistryName>>,
     <<"registry-port", Itoa(spec.RegistryPort)>>} \cup defaultRegistryVolumeLabels

\* the name createRegistry creates the container under (line 245)
UniqueRegistryContainerName(spec) ==
    defaultRegistryContainerName \o "-" \o Itoa(spec.ClusterName)
RegistryContainerName(spec) == defaultRegistryContainerName

(***************************************************************************)
(* State.                                                                  *)
(***************************************************************************)
VARIABLES
    containers,  \* the host's containers: id -> [name, labels, running, networks, mount]
    volumes,     \* the host's volumes: name -> set of labels
    nextId,      \* the next container identifier the runtime hands out
    call,        \* per process: the call in flight and its locals
    res,         \* what the call that completed last returned, and for whom
    hist,        \* the run so far, seen as successful attaches followed by detaches
    ncalls,      \* the number of calls begun so far
    emit         \* writeRegistriesConfigInContainer: its inputs and what it wrote

vars == <<containers, volumes, nextId, call, res, hist, ncalls, emit>>

(***************************************************************************)
(* The runtime (Docker) behind the helpers registry.go calls.  Each        *)
(* operator is the effect of one successful call; a call on a container or *)
(* volume that does not exist cannot succeed.                              *)
(***************************************************************************)
ContainerExists(id) == id \in DOMAIN containers
VolumeExists(name) == name \in DOMAIN volumes

\* the runtime rejects a create under a name that is in use
NameTaken(name) == \E i \in DOMAIN containers : containers[i].name = name

\* createContainer(config, hostConfig, networkingConfig, name): created, not started,
\* its endpoint on the cluster network, the volume bound at the mount path
RtCreateContainer(id, name, labels, net, mount) ==
    containers @@ (id :> [name |-> name, labels |-> labels, running |-> FALSE,
                          networks |-> {net}, mount |-> mount])

\* startContainer(id)
RtStartContainer(id) == [containers EXCEPT ![id].running = TRUE]

\* connectContainerToNetwork(id, network, aliases)
RtConnect(id, net) == [containers EXCEPT ![id].networks = @ \cup {net}]

\* disconnectContainerFromNetwork(id, network): no effect when not connected
RtDisconnect(id, net) == [containers EXCEPT ![id].networks = @ \ {net}]

\* getContainerNetworks(id)
RtNetworks(id) == containers[id].networks

\* getVolumeMountedIn(id, path): "" when nothing is mounted at the path
RtVolumeMountedIn(id, path) ==
    IF path = defaultRegistryMountPath THEN containers[id].mount ELSE ""

\* removeContainer(id): the container and its network endpoints are gone
RtRemoveContainer(id) == [i \in DOMAIN containers \ {id} |-> containers[i]]

\* getVolume(name, labels): the volume of that name carrying every given label
RtGetVolume(name, labels) == VolumeExists(name) /\ labels \subseteq volumes[name]

\* createVolume(name, labels): an existing volume of that name is returned as it is
RtCreateVolume(name, labels) ==
    IF VolumeExists(name) THEN volumes ELSE volumes @@ (name :> labels)

\* deleteVolume(name)
RtDeleteVolume(name) == [v \in DOMAIN volumes \ {name} |-> volumes[v]]

(***************************************************************************)
(* getRegistryContainer (lines 258-280): the containers of the fixed name  *)
(* carrying every default container label; "" (NoId) when there is none,   *)
(* else the first of the list, whose order the runtime chooses.            *)
(***************************************************************************)
IsRegistryContainer(id) ==
    /\ containers[id].name = defaultRegistryContainerName
    /\ defaultRegistryContainerLabels \subseteq containers[id].labels

RegistryContainers == {id \in DOMAIN containers : IsRegistryContainer(id)}

getRegistryContainer == IF RegistryContainers = {} THEN {NoId} ELSE RegistryContainers

(***************************************************************************)
(* The branch conditions and error policies of the two functions.          *)
(***************************************************************************)
\* line 148: if cid != ""
ReuseBranchNever(cid) == FALSE
ReuseBranch(cid) == cid /= NoId

\* line 299: if cid == ""
NotFoundNever(cid) == FALSE
NotFound(cid) == cid = NoId

\* line 314: if len(networks) == 0
NoNetworksLeftOffByOne(networks) == Cardinality(networks) <= 1
NoNetworksLeftExactlyOne(networks) == Cardinality(networks) = 1
NoNetworksLeftAlways(networks) == Cardinality(networks) >= 0
NoNetworksLeftOfClusters(networks) ==
    \A n \in networks : n \notin {k3dNetworkName(c) : c \in Clusters}
NoNetworksLeft(networks) == Cardinality(networks) = 0

\* lines 151-153: a failed start of the existing registry is a warning
OnStartExistingErrReturn == "return"
OnStartExistingErr == "warn"

\* lines 250-252: a failed start of the created registry is returned
OnStartCreatedErrWarn == "warn"
OnStartCreatedErr == "return"

\* lines 311-313: a failed getContainerNetworks is returned
OnGetNetworksErrContinue == "continue"
OnGetNetworksErr == "return"

\* lines 321-323: a failed removeContainer is logged
OnRemoveContainerErrReturn == "return"
OnRemoveContainerErr == "log"

\* lines 316-323: getVolumeMountedIn is followed by removeContainer
AfterFindVolumeCheckVolume == "d_getvol"
AfterFindVolume == "d_remove"

\* line 333: if keepRegistryVolume
KeepVolumeIgnored(keepRegistryVolume) == FALSE
KeepVolume(keepRegistryVolume) == keepRegistryVolume

\* line 328: the labels a volume must carry to be deleted
ContainerLabelsAsOwnership == defaultRegistryContainerLabels
OwnershipLabels == defaultRegistryVolumeLabels

(***************************************************************************)
(* Calls in flight, results, and the history of completed calls.           *)
(***************************************************************************)
NoSpec == [ClusterName |-> 0, RegistryName |-> "", RegistryPort |-> 0,
           RegistryVolume |-> ""]

\* the locals of a call: cid (the located registry), id (the created container),
\* volName (the volume found at the mount path); att records whether the
\* cluster's network was attached when the call located the registry, failed
\* the runtime calls that have failed so far
IdleCall == [pc |-> "idle", op |-> "none", spec |-> NoSpec, keep |-> FALSE,
             cid |-> NoId, id |-> NoId, volName |-> "", att |-> FALSE, failed |-> {}]

NoRes == [proc |-> 0, op |-> "none", err |-> "", id |-> NoId, cid |-> NoId,
          keep |-> FALSE, att |-> FALSE, volName |-> "", failed |-> {}]

AllIdle == \A p \in Clusters : call[p].pc = "idle"

HistInit == [ok |-> TRUE, ens |-> {}, rel |-> {}, relErr |-> FALSE,
             relRemoveFailed |-> FALSE, ext |-> FALSE]
HistBroken == [ok |-> FALSE, ens |-> {}, rel |-> {}, relErr |-> FALSE,
               relRemoveFailed |-> FALSE, ext |-> FALSE]

\* hist.ok: the completed calls so far are successful createRegistry calls for
\* distinct clusters (ens) followed by disconnectRegistryFromNetwork calls for
\* clusters among them (rel); relErr: one of these detaches returned an error;
\* relRemoveFailed: in one of them removeContainer failed
HistAfter(h, r) ==
    IF ~h.ok THEN h
    ELSE IF r.op = "create"
         THEN IF r.err = "" /\ h.rel = {} /\ r.proc \notin h.ens
              THEN [h EXCEPT !.ens = @ \cup {r.proc}]
              ELSE HistBroken
         ELSE IF r.proc \in h.ens
              THEN [h EXCEPT !.rel = @ \cup {r.proc},
                             !.relErr = @ \/ (r.err /= ""),
                             !.relRemoveFailed = @ \/ ("removeContainer" \in r.failed)]
              ELSE HistBroken

\* process p's call c returns (err, id): err = "" is a nil error
Return(p, c, err, id) ==
    /\ call' = [call EXCEPT ![p] = IdleCall]
    /\ res' = [proc |-> p, op |-> c.op, err |-> err, id |-> id, cid |-> c.cid,
               keep |-> c.keep, att |-> c.att, volName |-> c.volName,
               failed |-> c.failed]
    /\ hist' = IF \A q \in Clusters \ {p} : call[q].pc = "idle"
               THEN HistAfter(hist, res')
               ELSE HistBroken
    /\ UNCHANGED emit

\* process p's call goes on as c
Continue(p, c) ==
    /\ call' = [call EXCEPT ![p] = c]
    /\ UNCHANGED <<res, hist, ncalls, emit>>

\* process p's call begins as c: res is the last result until the next call begins;
\* a call that begins while another is in flight ends the sequence hist follows
Begin(p, c) ==
    /\ call' = [call EXCEPT ![p] = c]
    /\ res' = NoRes
    /\ hist' = IF AllIdle THEN hist ELSE HistBroken
    /\ UNCHANGED emit

Failed(c, what) == [c EXCEPT !.failed = @ \cup {what}]

(***************************************************************************)
(* writeRegistriesConfigInContainer (lines 92-134): its inputs.            *)
(***************************************************************************)
\* a Go map: nil, or the key/value pairs it holds
EmptyMap == [k \in {} |-> ""]
NilMap == [isNil |-> TRUE, kv |-> EmptyMap]
MakeMap(kv) == [isNil |-> FALSE, kv |-> kv]
\* len(m)
MapLen(m) == Cardinality(DOMAIN m.kv)
\* m[k] = v
Put(m, k, v) ==
    MakeMap([x \in DOMAIN m.kv \cup {k} |-> IF x = k THEN v ELSE m.kv[x]])

\* the hosts and endpoint lists of the mirrors of a base registries file
BaseHosts == {"quay.io", "docker.io", "registry.local:5001"}
BaseEndpoints == {<<"https://mirror.example.com">>, <<"http://registry.local:5000">>}
BaseMirrors == UNION {[S -> [Endpoints : BaseEndpoints]] : S \in SUBSET BaseHosts}
\* configs and auths: maps of values this code never looks into
BaseOpaque == UNION {[S -> {"opaque"}] : S \in SUBSET {"quay.io"}}
TopLevelKeys == {"mirrors", "configs", "auths"}

\* the YAML documents a base registries file may hold: the top-level keys that
\* are present, and the mapping under each
BaseDocuments ==
    {d \in [keys : SUBSET TopLevelKeys, mirrors : BaseMirrors,
            configs : BaseOpaque, auths : BaseOpaque] :
        /\ "mirrors" \notin d.keys => d.mirrors = EmptyMap
        /\ "configs" \notin d.keys => d.configs = EmptyMap
        /\ "auths" \notin d.keys => d.auths = EmptyMap}
EmptyDocument ==
    [keys |-> {}, mirrors |-> EmptyMap, configs |-> EmptyMap, auths |-> EmptyMap]

\* the file spec.RegistriesFile names: there or not, YAML or not
NoFile == [exists |-> FALSE, wellFormed |-> FALSE, doc |-> EmptyDocument]
RegistriesFiles ==
    {NoFile, [exists |-> TRUE, wellFormed |-> FALSE, doc |-> EmptyDocument]}
        \cup [exists : {TRUE}, wellFormed : {TRUE}, doc : BaseDocuments]

\* the ClusterSpec fields writeRegistriesConfigInContainer reads
EmitSpecs ==
    [RegistryName : RegistryNames, RegistryPort : RegistryPorts,
     RegistryEnabled : BOOLEAN, RegistryCacheEnabled : BOOLEAN,
     RegistriesFile : {"", "registries.yaml"}]

NoEmit ==
    [pc |-> "idle",
     spec |-> [RegistryName |-> "", RegistryPort |-> 0, RegistryEnabled |-> FALSE,
               RegistryCacheEnabled |-> FALSE, RegistriesFile |-> ""],
     file |-> NoFile, err |-> "", copied |-> FALSE, written |-> EmptyDocument]

Init ==
    /\ containers = [i \in {} |-> 0]
    /\ \E S \in SUBSET PreexistingVolumes :
          \E f \in [S -> ForeignLabelSets] : volumes = f
    /\ nextId = 1
    /\ call = [p \in Clusters |-> IdleCall]
    /\ res = NoRes
    /\ hist = HistInit
    /\ ncalls = 0
    /\ emit = NoEmit

(***************************************************************************)
(* createRegistry(spec), lines 137-255.                                    *)
(***************************************************************************)
\* lines 138-158: look for the registry; with one found take the reuse branch
CreateRegistryLocate(p, spec) ==
    /\ call[p].pc = "idle"
    /\ \E ok \in BOOLEAN, found \in getRegistryContainer :
          LET c == [IdleCall EXCEPT !.op = "create", !.spec = spec,
                                    !.cid = IF ok THEN found ELSE NoId]
          IN  IF ~ok
              THEN Return(p, Failed(c, "getRegistryContainer"), "getRegistryContainer", NoId)
              ELSE Begin(p, [c EXCEPT !.pc = IF ReuseBranch(found) THEN "c_start"
                                                                  ELSE "c_volume"])
    /\ ncalls' = ncalls + 1
    /\ UNCHANGED <<containers, volumes, nextId>>

\* lines 151-153: start the existing registry; a failure is a warning
CreateReuseStart(p) ==
    LET c == call[p] IN
    /\ c.pc = "c_start"
    /\ \E ok \in BOOLEAN :
          /\ ok => ContainerExists(c.cid)
          /\ IF ok
             THEN /\ containers' = RtStartContainer(c.cid)
                  /\ Continue(p, [c EXCEPT !.pc = "c_connect"])
             ELSE /\ UNCHANGED containers
                  /\ IF OnStartExistingErr = "warn"
                     THEN Continue(p, [Failed(c, "startContainer") EXCEPT !.pc = "c_connect"])
                     ELSE Return(p, Failed(c, "startContainer"), "startContainer", NoId)
    /\ UNCHANGED <<volumes, nextId, ncalls>>

\* lines 154-157: connect the existing registry to the cluster's network
CreateReuseConnect(p) ==
    LET c == call[p] IN
    /\ c.pc = "c_connect"
    /\ \E ok \in BOOLEAN :
          /\ ok => ContainerExists(c.cid)
          /\ IF ok
             THEN /\ containers' = RtConnect(c.cid, k3dNetworkName(c.spec.ClusterName))
                  /\ Return(p, c, "", c.cid)
             ELSE /\ UNCHANGED containers
                  /\ Return(p, Failed(c, "connectRegistryToNetwork"),
                            "connectRegistryToNetwork", NoId)
    /\ UNCHANGED <<volumes, nextId, ncalls>>

\* lines 160-199: merge the host config, then look for the volume of the spec
CreateResolveVolume(p) ==
    LET c == call[p] IN
    /\ c.pc = "c_volume"
    /\ \E mergeOk \in BOOLEAN, ok \in BOOLEAN :
          IF ~mergeOk
          THEN Return(p, Failed(c, "mergo.Merge"), "mergo.Merge", NoId)
          ELSE IF c.spec.RegistryVolume = ""
          THEN Continue(p, [c EXCEPT !.pc = "c_container"])
          ELSE IF ~ok
          THEN Return(p, Failed(c, "getVolume"), "getVolume", NoId)
          ELSE IF RtGetVolume(c.spec.RegistryVolume, {})
          THEN Continue(p, [c EXCEPT !.pc = "c_container"])
          ELSE Continue(p, [c EXCEPT !.pc = "c_mkvol"])
    /\ UNCHANGED <<containers, volumes, nextId, ncalls>>

\* lines 200-215: create the volume with its labels
CreateRegistryVolume(p) ==
    LET c == call[p] IN
    /\ c.pc = "c_mkvol"
    /\ \E ok \in BOOLEAN :
          IF ok
          THEN /\ volumes' = RtCreateVolume(c.spec.RegistryVolume, VolumeLabels(c.spec))
               /\ Continue(p, [c EXCEPT !.pc = "c_container"])
          ELSE /\ UNCHANGED volumes
               /\ Return(p, Failed(c, "createVolume"), "createVolume", NoId)
    /\ UNCHANGED <<containers, nextId, ncalls>>

\* lines 216-248: create the container on the cluster's network, the volume bound
CreateRegistryContainer(p) ==
    LET c == call[p] IN
    /\ c.pc = "c_container"
    /\ \E ok \in BOOLEAN :
          /\ ok => nextId <= MaxIds /\ ~NameTaken(RegistryContainerName(c.spec))
          /\ IF ok
             THEN /\ containers' = RtCreateContainer(nextId, RegistryContainerName(c.spec),
                                       ContainerLabels(c.spec),
                                       k3dNetworkName(c.spec.ClusterName),
                                       c.spec.RegistryVolume)
                  /\ nextId' = nextId + 1
                  /\ Continue(p, [c EXCEPT !.pc = "c_run", !.id = nextId])
             ELSE /\ UNCHANGED <<containers, nextId>>
                  /\ Return(p, Failed(c, "createContainer"), "createContainer", NoId)
    /\ UNCHANGED <<volumes, ncalls>>

\* lines 250-254: start the new container and return its identifier
CreateRegistryStart(p) ==
    LET c == call[p] IN
    /\ c.pc = "c_run"
    /\ \E ok \in BOOLEAN :
          /\ ok => ContainerExists(c.id)
          /\ IF ok
             THEN /\ containers' = RtStartContainer(c.id)
                  /\ Return(p, c, "", c.id)
             ELSE /\ UNCHANGED containers
                  /\ IF OnStartCreatedErr = "return"
                     THEN Return(p, Failed(c, "startContainer"), "startContainer", NoId)
                     ELSE Return(p, Failed(c, "startContainer"), "", c.id)
    /\ UNCHANGED <<volumes, nextId, ncalls>>

(***************************************************************************)
(* disconnectRegistryFromNetwork(name, keepRegistryVolume), lines 292-346. *)
(***************************************************************************)
\* lines 294-301: look for the registry; without one there is nothing to do
DisconnectLocate(p, keep) ==
    /\ call[p].pc = "idle"
    /\ \E ok \in BOOLEAN, found \in getRegistryContainer :
          LET cid == IF ok THEN found ELSE NoId
              c == [IdleCall EXCEPT !.op = "disconnect", !.keep = keep, !.cid = cid,
                       !.att = /\ cid /= NoId
                               /\ k3dNetworkName(p) \in containers[cid].networks]
          IN  IF ~ok
              THEN Return(p, Failed(c, "getRegistryContainer"), "getRegistryContainer", NoId)
              ELSE IF NotFound(cid)
              THEN Return(p, c, "", NoId)
              ELSE Begin(p, [c EXCEPT !.pc = "d_disconnect"])
    /\ ncalls' = ncalls + 1
    /\ UNCHANGED <<containers, volumes, nextId>>

\* lines 303-306: disconnect the registry from the cluster's network
DisconnectNetwork(p) ==
    LET c == call[p] IN
    /\ c.pc = "d_disconnect"
    /\ \E ok \in BOOLEAN :
          /\ ok => ContainerExists(c.cid)
          /\ IF ok
             THEN /\ containers' = RtDisconnect(c.cid, k3dNetworkName(p))
                  /\ Continue(p, [c EXCEPT !.pc = "d_networks"])
             ELSE /\ UNCHANGED containers
                  /\ Return(p, Failed(c, "disconnectContainerFromNetwork"),
                            "disconnectContainerFromNetwork", NoId)
    /\ UNCHANGED <<volumes, nextId, ncalls>>

\* lines 308-314: ask the runtime which networks are left
DisconnectCheckNetworks(p) ==
    LET c == call[p] IN
    /\ c.pc = "d_networks"
    /\ \E ok \in BOOLEAN :
          /\ ok => ContainerExists(c.cid)
          /\ LET networks == IF ok THEN RtNetworks(c.cid) ELSE {}
                 d == IF ok THEN c ELSE Failed(c, "getContainerNetworks")
             IN  IF ~ok /\ OnGetNetworksErr = "return"
                 THEN Return(p, d, "getContainerNetworks", NoId)
                 ELSE IF NoNetworksLeft(networks)
                 THEN Continue(p, [d EXCEPT !.pc = "d_mounted"])
                 ELSE Return(p, d, "", NoId)
    /\ UNCHANGED <<containers, volumes, nextId, ncalls>>

\* lines 315-319: find the volume mounted at the registry's mount path
DisconnectFindVolume(p) ==
    LET c == call[p] IN
    /\ c.pc = "d_mounted"
    /\ \E ok \in BOOLEAN :
          /\ ok => ContainerExists(c.cid)
          /\ IF ok
             THEN Continue(p, [c EXCEPT !.pc = AfterFindVolume,
                                 !.volName = RtVolumeMountedIn(c.cid, defaultRegistryMountPath)])
             ELSE Continue(p, [Failed(c, "getVolumeMountedIn") EXCEPT !.pc = AfterFindVolume])
    /\ UNCHANGED <<containers, volumes, nextId, ncalls>>

\* lines 321-327: remove the container; a failure is logged
DisconnectRemove(p) ==
    LET c == call[p] IN
    /\ c.pc = "d_remove"
    /\ \E ok \in BOOLEAN :
          /\ ok => ContainerExists(c.cid)
          /\ containers' = IF ok THEN RtRemoveContainer(c.cid) ELSE containers
          /\ LET d == IF ok THEN c ELSE Failed(c, "removeContainer")
             IN  IF ~ok /\ OnRemoveContainerErr /= "log"
                 THEN Return(p, d, "removeContainer", NoId)
                 ELSE IF d.volName = ""
                 THEN Return(p, d, "", NoId)
                 ELSE Continue(p, [d EXCEPT !.pc = "d_getvol"])
    /\ UNCHANGED <<volumes, nextId, ncalls>>

\* lines 328-335: is the volume ours, and is it to be kept
DisconnectCheckVolume(p) ==
    LET c == call[p] IN
    /\ c.pc = "d_getvol"
    /\ \E ok \in BOOLEAN :
          IF ~ok
          THEN Return(p, Failed(c, "getVolume"), "getVolume", NoId)
          ELSE IF ~RtGetVolume(c.volName, OwnershipLabels)
          THEN Return(p, c, "", NoId)
          ELSE IF KeepVolume(c.keep)
          THEN Return(p, c, "", NoId)
          ELSE Continue(p, [c EXCEPT !.pc = "d_delvol"])
    /\ UNCHANGED <<containers, volumes, nextId, ncalls>>

\* lines 336-340: delete the volume
DisconnectDeleteVolume(p) ==
    LET c == call[p] IN
    /\ c.pc = "d_delvol"
    /\ \E ok \in BOOLEAN :
          /\ ok => VolumeExists(c.volName)
          /\ IF ok
             THEN /\ volumes' = RtDeleteVolume(c.volName)
                  /\ Return(p, c, "", NoId)
             ELSE /\ UNCHANGED volumes
                  /\ Return(p, Failed(c, "deleteVolume"), "deleteVolume", NoId)
    /\ UNCHANGED <<containers, nextId, ncalls>>

(***************************************************************************)
(* The environment: a network attached to the registry from outside k3d.   *)
(***************************************************************************)
ExternalConnect(n) ==
    /\ \E id \in DOMAIN containers :
          /\ n \notin containers[id].networks
          /\ containers' = RtConnect(id, n)
    /\ hist' = [hist EXCEPT !.ext = hist.ok]
    /\ UNCHANGED <<volumes, nextId, call, res, ncalls, emit>>

\* the steps of a call in flight
Step(p) ==
    \/ CreateReuseStart(p)
    \/ CreateReuseConnect(p)
    \/ CreateResolveVolume(p)
    \/ CreateRegistryVolume(p)
    \/ CreateRegistryContainer(p)
    \/ CreateRegistryStart(p)
    \/ DisconnectNetwork(p)
    \/ DisconnectCheckNetworks(p)
    \/ DisconnectFindVolume(p)
    \/ DisconnectRemove(p)
    \/ DisconnectCheckVolume(p)
    \/ DisconnectDeleteVolume(p)

\* one k3d command at a time
Next ==
    \/ \E p \in Clusters : \E spec \in ClusterSpecs(p) :
          AllIdle /\ ncalls < MaxCalls /\ CreateRegistryLocate(p, spec)
    \/ \E p \in Clusters, keep \in BOOLEAN :
          AllIdle /\ ncalls < MaxCalls /\ DisconnectLocate(p, keep)
    \/ \E n \in ExternalNetworks : AllIdle /\ ExternalConnect(n)
    \/ \E p \in Clusters : Step(p)

Spec == Init /\ [][Next]_vars

\* k3d commands of different clusters running at the same time
NextConc ==
    \/ \E p \in Clusters : \E spec \in ClusterSpecs(p) :
          ncalls < MaxConcCalls /\ CreateRegistryLocate(p, spec)
    \/ \E p \in Clusters, keep \in BOOLEAN : ncalls < MaxConcCalls /\ DisconnectLocate(p, keep)
    \/ \E n \in ExternalNetworks : ExternalConnect(n)
    \/ \E p \in Clusters : Step(p)

SpecConc == Init /\ [][NextConc]_vars

\* the host after createRegistry(spec) of cluster 1 has created and started the
\* registry: its container on the cluster's network, its volume as lines 192-218
\* leave it
AfterCreateRegistry(spec, vols) ==
    /\ containers =
          (1 :> [name |-> RegistryContainerName(spec), labels |-> ContainerLabels(spec),
                 running |-> TRUE, networks |-> {k3dNetworkName(spec.ClusterName)},
                 mount |-> spec.RegistryVolume])
    /\ volumes = IF spec.RegistryVolume = "" \/ spec.RegistryVolume \in DOMAIN vols
                 THEN vols
                 ELSE vols @@ (spec.RegistryVolume :> VolumeLabels(spec))
    /\ nextId = 2

InitRace ==
    /\ \E spec \in ClusterSpecs(1) :
          \E S \in SUBSET PreexistingVolumes :
             \E f \in [S -> ForeignLabelSets] : AfterCreateRegistry(spec, f)
    /\ call = [p \in Clusters |-> IdleCall]
    /\ res = NoRes
    /\ hist = HistBroken
    /\ ncalls = 0
    /\ emit = NoEmit

\* k3d commands of different clusters running at the same time against a host
\* that has the registry of cluster 1
SpecRace == InitRace /\ [][NextConc]_vars

(***************************************************************************)
(* writeRegistriesConfigInContainer(spec, ID), lines 92-134.               *)
(***************************************************************************)
\* lines 93-94: fmt.Sprintf("%s:%d", ...)
registryInternalAddressOfExternalPort(spec) ==
    spec.RegistryName \o ":" \o Itoa(spec.RegistryPort)
registryInternalAddress(spec) == spec.RegistryName \o ":" \o Itoa(defaultRegistryPort)
registryExternalAddress(spec) == spec.RegistryName \o ":" \o Itoa(spec.RegistryPort)

\* line 96: &Registry{}
EmptyRegistry == [Mirrors |-> NilMap, Configs |-> NilMap, Auths |-> NilMap]

\* yaml.Unmarshal into a Registry: a key of the document sets its field, a field
\* without a key stays as it is
Unmarshal(doc, into) ==
    [Mirrors |-> IF "mirrors" \in doc.keys THEN MakeMap(doc.mirrors) ELSE into.Mirrors,
     Configs |-> IF "configs" \in doc.keys THEN MakeMap(doc.configs) ELSE into.Configs,
     Auths   |-> IF "auths" \in doc.keys THEN MakeMap(doc.auths) ELSE into.Auths]

\* yaml.Marshal of a Registry: the three keys, a nil map written as an empty mapping
Marshal(regs) ==
    [keys |-> TopLevelKeys, mirrors |-> regs.Mirrors.kv,
     configs |-> regs.Configs.kv, auths |-> regs.Auths.kv]

\* lines 99-108: load the base registries file; err = "" is a nil error
LoadBase(spec, file) ==
    IF spec.RegistriesFile = ""
    THEN [err |-> "", regs |-> EmptyRegistry]
    ELSE IF ~file.exists
    THEN [err |-> "ioutil.ReadFile", regs |-> EmptyRegistry]
    ELSE IF ~file.wellFormed
    THEN [err |-> "yaml.Unmarshal", regs |-> EmptyRegistry]
    ELSE [err |-> "", regs |-> Unmarshal(file.doc, EmptyRegistry)]

\* lines 116-118 and 122-124: the Mirror both entries get
RegistryMirrorOfExternalAddress(spec) ==
    [Endpoints |-> <<"http://" \o registryExternalAddress(spec)>>]
RegistryMirror(spec) == [Endpoints |-> <<"http://" \o registryInternalAddress(spec)>>]

\* lines 110-126: the mirrors of the registry and of the Docker Hub
AddMirrorsToFreshMap(spec, regs) ==
    IF ~spec.RegistryEnabled
    THEN regs
    ELSE LET m1 == Put(MakeMap(EmptyMap), registryExternalAddress(spec), RegistryMirror(spec))
             m2 == IF spec.RegistryCacheEnabled
                   THEN Put(m1, defaultDockerHubAddress, RegistryMirror(spec))
                   ELSE m1
         IN  [regs EXCEPT !.Mirrors = m2]
AddMirrors(spec, regs) ==
    IF ~spec.RegistryEnabled
    THEN regs
    ELSE LET m0 == IF MapLen(regs.Mirrors) = 0 THEN MakeMap(EmptyMap) ELSE regs.Mirrors
             m1 == Put(m0, registryExternalAddress(spec), RegistryMirror(spec))
             m2 == IF spec.RegistryCacheEnabled
                   THEN Put(m1, defaultDockerHubAddress, RegistryMirror(spec))
                   ELSE m1
         IN  [regs EXCEPT !.Mirrors = m2]

\* the document lines 96-128 build from the spec and the base file
EmittedDocument(spec, file) == Marshal(AddMirrors(spec, LoadBase(spec, file).regs))

\* the whole call: load, add, marshal, copy into the node (copyToContainer may fail)
WriteRegistriesConfigInContainer(spec, file, copyOk) ==
    /\ emit.pc = "idle"
    /\ spec.RegistriesFile = "" => file = NoFile
    /\ LET loaded == LoadBase(spec, file)
           err == IF loaded.err /= "" THEN loaded.err
                  ELSE IF ~copyOk THEN "copyToContainer" ELSE ""
       IN  emit' = [pc |-> "done", spec |-> spec, file |-> file, err |-> err,
                    copied |-> (err = ""),
                    written |-> IF err = "" THEN EmittedDocument(spec, file)
                                ELSE EmptyDocument]
    /\ UNCHANGED <<containers, volumes, nextId, call, res, hist, ncalls>>

\* the node's registries file is written once, when the node is set up
NextCfg ==
    \E spec \in EmitSpecs, file \in RegistriesFiles, copyOk \in BOOLEAN :
        WriteRegistriesConfigInContainer(spec, file, copyOk)

SpecCfg == Init /\ [][NextCfg]_vars

(***************************************************************************)
(* Properties.                                                             *)
(***************************************************************************)
Net(p) == k3dNetworkName(p)

RegistryRunning ==
    \E id \in RegistryContainers : containers[id].running

Owned(v) == defaultRegistryVolumeLabels \subseteq volumes[v]

\* a call completed in this step, and it was p's
Completes(p) == call[p].pc /= "idle" /\ call'[p].pc = "idle"

C3_ReuseNeverCreates ==
    [][\A p \in Clusters :
          (call[p].op = "create" /\ call[p].cid /= NoId) =>
              /\ DOMAIN containers' = DOMAIN containers
              /\ volumes' = volumes
              /\ \A id \in DOMAIN containers :
                    /\ containers'[id].name = containers[id].name
                    /\ containers'[id].labels = containers[id].labels
                    /\ containers'[id].mount = containers[id].mount
                    /\ containers[id].networks \subseteq containers'[id].networks
                    /\ containers'[id].networks \subseteq
                          containers[id].networks \cup {Net(p)}
                    /\ id /= call[p].cid => containers'[id] = containers[id]
              /\ (Completes(p) /\ res'.err = "") =>
                    /\ res'.id = call[p].cid
                    /\ Net(p) \in containers'[call[p].cid].networks
              /\ (Completes(p) /\ res'.err /= "") => res'.id = NoId]_vars

\* a second cluster was attached to the registry the first one created
C3_Witness ==
    /\ AllIdle /\ res.op = "create" /\ res.err = ""
    /\ res.cid /= NoId /\ res.id = res.cid
    /\ DOMAIN containers = {res.cid}
    /\ Cardinality(containers[res.cid].networks) >= 2

\* C4 (SpecConc): at most one registry container exists on the host, also when
\* createRegistry calls overlap and more than one of them found no registry.
C4_AtMostOneRegistry == Cardinality(DOMAIN containers) <= 1

\* a call that found no registry is about to create one while another call's
\* registry exists already
C4_Witness ==
    \E p \in Clusters :
        /\ call[p].op = "create" /\ call[p].pc = "c_container" /\ call[p].cid = NoId
        /\ \E id \in DOMAIN containers : Net(p) \notin containers[id].networks

\* p begins a disconnectRegistryFromNetwork call in this step
BeginsDisconnect(p) ==
    /\ call[p].pc = "idle"
    /\ ncalls' = ncalls + 1
    /\ \/ call'[p].op = "disconnect"
       \/ call'[p].pc = "idle" /\ res'.proc = p /\ res'.op = "disconnect"

\* C5 (Spec): idempotent detach without a registry.  When no registry container
\* exists and the lookup itself does not fail, the call returns nil at once,
\* for either keepRegistryVolume, and changes no container and no volume.
C5_DetachWithoutRegistry ==
    [][\A p \in Clusters :
          (/\ BeginsDisconnect(p)
           /\ RegistryContainers = {}
           /\ ~(call'[p].pc = "idle" /\ "getRegistryContainer" \in res'.failed)) =>
              /\ call'[p].pc = "idle"
              /\ res'.err = "" /\ res'.failed = {}
              /\ containers' = containers
              /\ volumes' = volumes]_vars

\* a detach told to delete the volume returned nil with no registry, the volume
\* on the host untouched
C5_Witness ==
    /\ AllIdle /\ res.op = "disconnect" /\ res.cid = NoId /\ res.err = ""
    /\ res.failed = {} /\ ~res.keep
    /\ DOMAIN containers = {} /\ DOMAIN volumes /= {}

\* C6 (Spec), as stated: a detach for a cluster whose network is not attached to
\* the existing registry changes no container and no volume, and returns nil
\* when none of its runtime calls fails.
C6_DetachUnattachedNoop ==
    [][\A p \in Clusters :
          (call[p].op = "disconnect" /\ call[p].pc /= "idle" /\ ~call[p].att) =>
              /\ containers' = containers
              /\ volumes' = volumes
              /\ (Completes(p) /\ res'.failed = {}) => res'.err = ""]_vars

\* C6 (Spec), amended: the same, for a registry that has at least one network
\* attached; the call then ends after listing the networks.
C6_DetachUnattachedKeepsReferenced ==
    [][\A p \in Clusters :
          (/\ call[p].op = "disconnect" /\ call[p].pc /= "idle" /\ ~call[p].att
           /\ ContainerExists(call[p].cid)
           /\ containers[call[p].cid].networks /= {}) =>
              /\ containers' = containers
              /\ volumes' = volumes
              /\ (Completes(p) /\ res'.failed = {}) => res'.err = ""
              /\ ~Completes(p) => call'[p].pc = "d_networks"]_vars

\* a detach for a cluster that was not attached returned nil and left the
\* registry with its networks
C6_Witness ==
    /\ AllIdle /\ res.op = "disconnect" /\ res.cid /= NoId /\ ~res.att
    /\ res.err = "" /\ res.failed = {}
    /\ ContainerExists(res.cid) /\ containers[res.cid].networks /= {}

\* C7 (Spec): volume ownership guard.  A volume that does not carry every
\* ownership label (app, component, managed) is deleted by no step, and keeps
\* its labels.
C7_ForeignVolumeNeverDeleted ==
    [][\A v \in DOMAIN volumes :
          ~Owned(v) => (v \in DOMAIN volumes' /\ volumes'[v] = volumes[v])]_vars

\* a teardown told to delete the volume removed the registry that mounted a
\* volume labelled app and component but not managed, and the volume is there
C7_Witness ==
    /\ AllIdle /\ res.op = "disconnect" /\ res.err = "" /\ ~res.keep
    /\ res.volName /= "" /\ res.failed = {}
    /\ DOMAIN containers = {}
    /\ res.volName \in DOMAIN volumes
    /\ volumes[res.volName] = defaultRegistryContainerLabels

\* C8 (Spec): best-effort removal.  A failed removeContainer is never the error
\* the detach returns; the detach returns nil unless a later volume call
\* (getVolume, deleteVolume) fails.
C8_RemoveFailureOnlyLogged ==
    (res.op = "disconnect" /\ "removeContainer" \in res.failed) =>
        /\ res.err \in {"", "getVolume", "deleteVolume"}
        /\ (res.failed \cap {"getVolume", "deleteVolume"} = {}) => res.err = ""

\* the removal failed, the detach returned nil, the registry is still there
C8_Witness ==
    /\ AllIdle /\ res.op = "disconnect" /\ res.failed = {"removeContainer"}
    /\ res.err = ""
    /\ ContainerExists(res.cid) /\ containers[res.cid].networks = {}

\* C9 (Spec), as stated: a detach whose getContainerNetworks failed returns nil.
C9_QueryFailureIgnored ==
    (res.op = "disconnect" /\ "getContainerNetworks" \in res.failed) => res.err = ""

\* C9 (Spec), amended: a failed getContainerNetworks ends the detach: the call
\* returns that error, takes no further step, and the registry container is
\* not removed.
C9_QueryFailureReturned ==
    /\ \A p \in Clusters : "getContainerNetworks" \notin call[p].failed
    /\ "getContainerNetworks" \in res.failed =>
          /\ res.op = "disconnect"
          /\ res.err = "getContainerNetworks"
          /\ res.failed = {"getContainerNetworks"}
          /\ AllIdle => ContainerExists(res.cid)

\* the last network was disconnected, the query failed, and the registry is
\* left without a network
C9_Witness ==
    /\ AllIdle /\ res.op = "disconnect" /\ res.err = "getContainerNetworks"
    /\ res.att
    /\ ContainerExists(res.cid) /\ containers[res.cid].networks = {}

\* C10 (Spec): best-effort start on reuse.  When the start of the located
\* registry fails, createRegistry fails only if the network attachment fails;
\* otherwise it returns the located identifier, the cluster's network attached.
C10_StartFailureOnReuse ==
    (res.op = "create" /\ res.cid /= NoId /\ "startContainer" \in res.failed) =>
        /\ res.err = "" <=> "connectRegistryToNetwork" \notin res.failed
        /\ res.err /= "" => (res.err = "connectRegistryToNetwork" /\ res.id = NoId)
        /\ res.err = "" =>
              /\ res.id = res.cid
              /\ AllIdle => /\ ContainerExists(res.cid)
                            /\ Net(res.proc) \in containers[res.cid].networks

\* the located registry could not be started and is not running; the call
\* returned its identifier with the network attached
C10_Witness ==
    /\ AllIdle /\ res.op = "create" /\ res.cid /= NoId
    /\ res.failed = {"startContainer"} /\ res.err = "" /\ res.id = res.cid
    /\ ContainerExists(res.cid) /\ ~containers[res.cid].running
    /\ Net(res.proc) \in containers[res.cid].networks


\* a registries document was written into the node
Emitted == emit.pc = "done" /\ emit.copied

\* the mirrors of the base file the call loaded (none without a file)
BaseMirrorsLoaded ==
    IF emit.spec.RegistriesFile = "" THEN EmptyMap ELSE emit.file.doc.mirrors

\* C11 (SpecCfg), as stated: config merge.  With the registry enabled, name R
\* and external port P, every mirror entry of the base file for a host other
\* than R:P is in the written document unchanged, and the document has an entry
\* R:P whose endpoints are exactly [http://R:5000], whatever P is.
C11_ConfigMergeAsStated ==
    (Emitted /\ emit.spec.RegistryEnabled) =>
        LET RP == registryExternalAddress(emit.spec)
            out == emit.written.mirrors
        IN  /\ \A X \in DOMAIN BaseMirrorsLoaded \ {RP} :
                  X \in DOMAIN out /\ out[X] = BaseMirrorsLoaded[X]
            /\ RP \in DOMAIN out
            /\ out[RP].Endpoints = <<"http://" \o emit.spec.RegistryName \o ":5000">>

\* C11 (SpecCfg), amended: the same for every host other than R:P and, when the
\* pull-through cache is enabled, other than docker.io.
C11_ConfigMerge ==
    (Emitted /\ emit.spec.RegistryEnabled) =>
        LET RP == registryExternalAddress(emit.spec)
            out == emit.written.mirrors
            replaced == {RP} \cup (IF emit.spec.RegistryCacheEnabled
                                   THEN {"docker.io"} ELSE {})
        IN  /\ \A X \in DOMAIN BaseMirrorsLoaded \ replaced :
                  X \in DOMAIN out /\ out[X] = BaseMirrorsLoaded[X]
            /\ RP \in DOMAIN out
            /\ out[RP].Endpoints = <<"http://" \o emit.spec.RegistryName \o ":5000">>

\* a base file with entries for quay.io and docker.io, the registry on port 5001
\* with the cache: quay.io is kept, docker.io is not the base's any more
C11_Witness ==
    /\ Emitted /\ emit.spec.RegistryEnabled /\ emit.spec.RegistryCacheEnabled
    /\ emit.spec.RegistryPort = 5001 /\ emit.spec.RegistriesFile /= ""
    /\ {"quay.io", "docker.io"} \subseteq DOMAIN emit.file.doc.mirrors
    /\ emit.file.doc.mirrors["docker.io"].Endpoints = <<"https://mirror.example.com">>
    /\ emit.written.mirrors["quay.io"] = emit.file.doc.mirrors["quay.io"]
    /\ emit.written.mirrors["docker.io"] /= emit.file.doc.mirrors["docker.io"]
    /\ "registry.local:5001" \in DOMAIN emit.written.mirrors

\* the mirrors the same call writes with the pull-through cache switched off
MirrorsWithoutCache ==
    EmittedDocument([emit.spec EXCEPT !.RegistryCacheEnabled = FALSE], emit.file).mirrors

\* C12 (SpecCfg), as stated: cache mirror addition.  With the registry and the
\* cache enabled the written mirrors are those written with the registry alone
\* plus exactly one more entry, keyed docker.io, whose endpoints are those of
\* the R:P entry.
C12_CacheAddsOneEntryAsStated ==
    (Emitted /\ emit.spec.RegistryEnabled /\ emit.spec.RegistryCacheEnabled) =>
        LET with == emit.written.mirrors
            without == MirrorsWithoutCache
            RP == emit.spec.RegistryName \o ":" \o Itoa(emit.spec.RegistryPort)
        IN  /\ DOMAIN with = DOMAIN without \cup {"docker.io"}
            /\ Cardinality(DOMAIN with) = Cardinality(DOMAIN without) + 1
            /\ \A k \in DOMAIN without : with[k] = without[k]
            /\ with["docker.io"].Endpoints = with[RP].Endpoints

\* C12 (SpecCfg), amended: the mirrors written with the cache differ from those
\* written with the registry alone in the docker.io entry only, whose endpoints
\* are those of the R:P entry; it is one more entry when the base file has no
\* docker.io entry, and it replaces the base file's entry otherwise.
C12_CacheSetsHubEntry ==
    (Emitted /\ emit.spec.RegistryEnabled /\ emit.spec.RegistryCacheEnabled) =>
        LET with == emit.written.mirrors
            without == MirrorsWithoutCache
            RP == emit.spec.RegistryName \o ":" \o Itoa(emit.spec.RegistryPort)
        IN  /\ DOMAIN with = DOMAIN without \cup {"docker.io"}
            /\ Cardinality(DOMAIN with) =
                  Cardinality(DOMAIN without)
                      + (IF "docker.io" \in DOMAIN BaseMirrorsLoaded THEN 0 ELSE 1)
            /\ \A k \in DOMAIN without \ {"docker.io"} : with[k] = without[k]
            /\ with["docker.io"].Endpoints = with[RP].Endpoints
            /\ emit.written.configs =
                  EmittedDocument([emit.spec EXCEPT !.RegistryCacheEnabled = FALSE],
                                  emit.file).configs
            /\ emit.written.auths =
                  EmittedDocument([emit.spec EXCEPT !.RegistryCacheEnabled = FALSE],
                                  emit.file).auths

\* a base file with a quay.io entry only: the cache adds the docker.io entry as a
\* third one
C12_Witness ==
    /\ Emitted /\ emit.spec.RegistryEnabled /\ emit.spec.RegistryCacheEnabled
    /\ emit.spec.RegistriesFile /= "" /\ DOMAIN emit.file.doc.mirrors = {"quay.io"}
    /\ DOMAIN emit.written.mirrors =
          {"quay.io", "docker.io", registryExternalAddress(emit.spec)}
    /\ DOMAIN MirrorsWithoutCache = {"quay.io", registryExternalAddress(emit.spec)}
    /\ emit.written.mirrors["docker.io"].Endpoints = <<"http://registry.local:5000">>

\* the decimal text of the ports of RegistryPorts
PortText == (5000 :> "5000") @@ (5001 :> "5001")

\* C13 (Spec): label round trip.  A volume that comes into existence is the
\* RegistryVolume of the createRegistry call that takes the step, and carries
\* exactly app=k3d, component=registry, managed=true, registry-name and
\* registry-port of that call's spec; the teardown's lookup (getVolume with the
\* ownership labels) finds it.
C13_CreatedVolumeLabels ==
    [][\A v \in DOMAIN volumes' \ DOMAIN volumes :
          \E p \in Clusters :
              /\ call[p].op = "create" /\ call[p].pc = "c_mkvol"
              /\ v = call[p].spec.RegistryVolume
              /\ volumes'[v] =
                    {<<"app", "k3d">>, <<"component", "registry">>, <<"managed", "true">>,
                     <<"registry-name", call[p].spec.RegistryName>>,
                     <<"registry-port", PortText[call[p].spec.RegistryPort]>>}
              /\ {<<"app", "k3d">>, <<"component", "registry">>, <<"managed", "true">>}
                    \subseteq volumes'[v]]_vars

\* createRegistry on port 5001 returned the new registry, whose volume it created
C13_Witness ==
    /\ AllIdle /\ res.op = "create" /\ res.err = "" /\ res.cid = NoId
    /\ ContainerExists(res.id) /\ containers[res.id].mount = "k3d-registry-vol"
    /\ VolumeExists("k3d-registry-vol")
    /\ <<"registry-port", "5001">> \in volumes["k3d-registry-vol"]
    /\ Owned("k3d-registry-vol")

C15_DetachWhileReferenced ==
    [][\A p \in Clusters :
          /\ (call[p].op = "disconnect" /\ call[p].pc = "d_disconnect") =>
                /\ volumes' = volumes
                /\ DOMAIN containers' = DOMAIN containers
                /\ \A id \in DOMAIN containers :
                      \/ containers'[id] = containers[id]
                      \/ /\ id = call[p].cid
                         /\ containers'[id] =
                               [containers[id] EXCEPT !.networks = @ \ {Net(p)}]
                         /\ ~Completes(p)
          /\ (/\ call[p].op = "disconnect" /\ call[p].pc = "d_networks"
              /\ ContainerExists(call[p].cid)
              /\ containers[call[p].cid].networks /= {}) =>
                /\ containers' = containers
                /\ volumes' = volumes
                /\ Completes(p)
                /\ res'.err \in {"", "getContainerNetworks"}
                /\ (res'.err = "") <=> ("getContainerNetworks" \notin res'.failed)]_vars

\* every cluster that had attached has detached, a network attached from outside
\* is left, and the registry is running with it
C15_Witness ==
    /\ AllIdle /\ res.op = "disconnect" /\ res.err = "" /\ res.att
    /\ hist.ok /\ hist.ens /= {} /\ hist.rel = hist.ens /\ hist.ext
    /\ ContainerExists(res.cid) /\ containers[res.cid].running
    /\ containers[res.cid].networks = ExternalNetworks

\* C16 (Spec): a failure on the create branch is terminal and cleans nothing up.
\* No step of a createRegistry call that found no registry removes or changes a
\* container or a volume that exists (but to start the container it created);
\* when a runtime call of it fails the call returns that error and no
\* identifier, the volume of the spec still there after a failed createContainer
\* and the created container still there after a failed startContainer.
C16_CreateFailureNoCleanup ==
    [][\A p \in Clusters :
          (call[p].op = "create" /\ call[p].cid = NoId) =>
              /\ \A v \in DOMAIN volumes : v \in DOMAIN volumes' /\ volumes'[v] = volumes[v]
              /\ \A id \in DOMAIN containers :
                    /\ id \in DOMAIN containers'
                    /\ \/ containers'[id] = containers[id]
                       \/ /\ id = call[p].id
                          /\ containers'[id] = [containers[id] EXCEPT !.running = TRUE]
              /\ (Completes(p) /\ res'.failed = {}) => res'.err = ""
              /\ (Completes(p) /\ res'.failed /= {}) =>
                    /\ res'.err \in {"mergo.Merge", "getVolume", "createVolume",
                                     "createContainer", "startContainer"}
                    /\ res'.failed = {res'.err}
                    /\ res'.id = NoId
                    /\ (res'.err = "createContainer" /\ call[p].spec.RegistryVolume /= "")
                          => call[p].spec.RegistryVolume \in DOMAIN volumes'
                    /\ res'.err = "startContainer" =>
                          /\ call[p].id \in DOMAIN containers'
                          /\ ~containers'[call[p].id].running
                          /\ call[p].spec.RegistryVolume /= ""
                                => call[p].spec.RegistryVolume \in DOMAIN volumes']_vars

\* createRegistry made the volume and the container, the start failed: the call
\* returned the error and no identifier, and both are left on the host
C16_Witness ==
    /\ AllIdle /\ res.op = "create" /\ res.cid = NoId
    /\ res.err = "startContainer" /\ res.id = NoId
    /\ \E id \in DOMAIN containers :
          /\ ~containers[id].running
          /\ containers[id].mount = "k3d-registry-vol"
    /\ VolumeExists("k3d-registry-vol") /\ Owned("k3d-registry-vol")

\* the configs and auths of the base file the call loaded (none without a file)
BaseConfigsLoaded ==
    IF emit.spec.RegistriesFile = "" THEN EmptyMap ELSE emit.file.doc.configs
BaseAuthsLoaded ==
    IF emit.spec.RegistriesFile = "" THEN EmptyMap ELSE emit.file.doc.auths

\* C17 (SpecCfg): mirror document superset.  The written document has every
\* mirror host of the base file; its entries are the base file's but for R:P
\* and docker.io, the only entries that may be new or differ; configs and auths
\* are the base file's (none written as an empty mapping); and with the
\* registry not enabled the mirrors are the base file's.
C17_DocumentSuperset ==
    Emitted =>
        LET out == emit.written.mirrors
            RP == emit.spec.RegistryName \o ":" \o Itoa(emit.spec.RegistryPort)
            changed == {k \in DOMAIN out :
                           k \notin DOMAIN BaseMirrorsLoaded \/ out[k] /= BaseMirrorsLoaded[k]}
        IN  /\ DOMAIN BaseMirrorsLoaded \subseteq DOMAIN out
            /\ changed \subseteq {RP, "docker.io"}
            /\ Cardinality(changed) <= 2
            /\ emit.written.configs = BaseConfigsLoaded
            /\ emit.written.auths = BaseAuthsLoaded
            /\ ~emit.spec.RegistryEnabled => out = BaseMirrorsLoaded

\* a base file with mirrors, configs and auths; the registry and the cache add
\* two entries next to the base file's quay.io
C17_Witness ==
    /\ Emitted /\ emit.spec.RegistryEnabled /\ emit.spec.RegistryCacheEnabled
    /\ emit.spec.RegistriesFile /= ""
    /\ DOMAIN emit.file.doc.mirrors = {"quay.io"}
    /\ DOMAIN emit.file.doc.configs = {"quay.io"}
    /\ DOMAIN emit.file.doc.auths = {"quay.io"}
    /\ Cardinality(DOMAIN emit.written.mirrors) = 3
    /\ emit.written.mirrors["quay.io"] = emit.file.doc.mirrors["quay.io"]
    /\ emit.written.configs = emit.file.doc.configs
    /\ emit.written.auths = emit.file.doc.auths

\* C18 (SpecCfg), as stated: whenever the pull-through cache is enabled in the
\* spec, the written document has a docker.io mirror with the endpoint
\* http://<RegistryName>:5000.
C18_CacheMirrorWheneverCacheEnabled ==
    (Emitted /\ emit.spec.RegistryCacheEnabled) =>
        /\ "docker.io" \in DOMAIN emit.written.mirrors
        /\ emit.written.mirrors["docker.io"].Endpoints =
              <<"http://" \o emit.spec.RegistryName \o ":5000">>

\* C18 (SpecCfg), amended: the same whenever the registry and the cache are both
\* enabled; with the registry not enabled the cache flag adds nothing.
C18_CacheMirrorWhenRegistryEnabled ==
    /\ (Emitted /\ emit.spec.RegistryEnabled /\ emit.spec.RegistryCacheEnabled) =>
          /\ "docker.io" \in DOMAIN emit.written.mirrors
          /\ emit.written.mirrors["docker.io"].Endpoints =
                <<"http://" \o emit.spec.RegistryName \o ":5000">>
    /\ (Emitted /\ ~emit.spec.RegistryEnabled) =>
          emit.written.mirrors = BaseMirrorsLoaded

\* registry on port 5001 with the cache, no base file: docker.io points at port 5000
C18_Witness ==
    /\ Emitted /\ emit.spec.RegistryEnabled /\ emit.spec.RegistryCacheEnabled
    /\ emit.spec.RegistryPort = 5001 /\ emit.spec.RegistriesFile = ""
    /\ emit.written.mirrors["docker.io"].Endpoints = <<"http://registry.local:5000">>

\* C19 (SpecRace), as stated: attach/detach race.  No step removes a registry
\* container whose identifier the createRegistry call that completed last has
\* returned with a nil error and which has that cluster's network attached
\* (no runtime call of either call having failed).
C19_NeverRemovedWhileAttached ==
    [][\A id \in DOMAIN containers \ DOMAIN containers' :
          ~(/\ res.op = "create" /\ res.err = "" /\ res.id = id
            /\ Net(res.proc) \in containers[id].networks
            /\ res.failed = {}
            /\ \A p \in Clusters : call[p].failed = {})]_vars

\* C20 (Spec), as stated: teardown ordering.  No step deletes a volume that a
\* registry container still on the host mounts.
C20_VolumeNeverDeletedWhileMounted ==
    [][\A v \in DOMAIN volumes \ DOMAIN volumes' :
          \A id \in DOMAIN containers : containers[id].mount /= v]_vars

\* C20 (Spec), amended: a detach learns the mounted volume while the container
\* is there, before its removal step; a container is removed by that step only;
\* and a volume is deleted only by a detach that is past its removal step: a
\* container that still mounts the volume is one whose removal failed in this
\* call and was only logged.
C20_TeardownOrdering ==
    [][/\ \A p \in Clusters :
             call'[p].volName /= call[p].volName /\ call'[p].volName /= "" =>
                 /\ call[p].pc = "d_mounted" /\ call'[p].pc = "d_remove"
                 /\ ContainerExists(call[p].cid)
                 /\ containers' = containers
       /\ \A id \in DOMAIN containers \ DOMAIN containers' :
             \E p \in Clusters :
                 call[p].op = "disconnect" /\ call[p].pc = "d_remove" /\ call[p].cid = id
       /\ \A v \in DOMAIN volumes \ DOMAIN volumes' :
             \E p \in Clusters :
                 /\ call[p].op = "disconnect" /\ call[p].pc = "d_delvol"
                 /\ call[p].volName = v
                 /\ \A id \in DOMAIN containers :
                       containers[id].mount = v =>
                           (id = call[p].cid /\ "removeContainer" \in call[p].failed)]_vars

\* the removal failed and was logged, the volume was deleted all the same: the
\* registry container is on the host, its volume is not
C20_Witness ==
    /\ AllIdle /\ res.op = "disconnect" /\ res.err = ""
    /\ res.failed = {"removeContainer"} /\ ~res.keep
    /\ res.volName = "k3d-registry-vol" /\ ~VolumeExists("k3d-registry-vol")
    /\ ContainerExists(res.cid) /\ containers[res.cid].mount = "k3d-registry-vol"
====
